---- MODULE Spec2Model ----
(***************************************************************************)
(* Model of the system-bridge backend core:                                *)
(*   - the periodic data update thread (handlers/threads/update.py) that   *)
(*     runs one refresh cycle (modules/__init__.py) per tick, each cycle    *)
(*     on a fresh event loop;                                              *)
(*   - the snapshot store (handlers/data.py);                              *)
(*   - the listener registry and its fan-out (modules/listeners.py);       *)
(*   - the websocket protocol engine (server/websocket.py);                *)
(*   - the schedule of the data and media update threads on a clock, and   *)
(*     their shutdown (handlers/threads/update.py, server/__init__.py).    *)
(*                                                                         *)
(* Two execution contexts exist: the worker thread of the update loop,     *)
(* and the main event loop serving the connections. Steps of the worker    *)
(* interleave freely with steps of the main loop.                          *)
(***************************************************************************)
EXTENDS Integers, Sequences, FiniteSets, TLC

(***************************************************************************)
(* Bounds of the model.                                                    *)
(***************************************************************************)
NumClasses == 3
NumConns == 2
MaxBlob == 1
MaxSensors == 2
MaxInflight == 2
MaxListeners == 2
MaxTime == 8
MaxDuration == 4
MaxThreads == 2

(***************************************************************************)
(* Module registry.                                                        *)
(***************************************************************************)
MODULES ==
    {"battery", "cpu", "disks", "displays", "gpus", "media", "memory",
     "networks", "processes", "sensors", "system"}

AllClasses ==
    <<"system", "battery", "cpu", "disks", "displays", "gpus", "memory",
      "networks", "processes">>

Min(a, b) == IF a < b THEN a ELSE b

Classes == SubSeq(AllClasses, 1, Min(NumClasses, Len(AllClasses)))

ClassNames == {Classes[k] : k \in 1..Len(Classes)}

SensorClasses == {"cpu", "gpus"} \cap ClassNames

Names == {"sensors"} \cup ClassNames

None == 0

Blobs == 1..MaxBlob

\* the values the sensors provider returns
SensorBlobs == 1..MaxSensors

Ids == 1..NumConns

Interests == {{"system"}, {"sensors"}, {"system", "sensors"}}

NoListener == [id |-> 0, modules |-> {}]

FanIdle ==
    [owner |-> "none", module |-> "none", idx |-> 0, pend |-> NoListener,
     expect |-> {}, got |-> {}, stay |-> {}]

NoPush == [id |-> 0, module |-> "none", modules |-> {}, blob |-> None]

VARIABLES
    stopping,               \* BaseThread.stopping of the data update thread
    pc,                     \* position of UpdateThread._run / update_data
    i,                      \* index of update_data's loop over _classes
    sensors_data,           \* the sensors blob of the running cycle
    cls_sensors,            \* the sensors attribute of the providers having one
    tasks,                  \* ModulesUpdate.tasks: state of each module's task
    inflight,               \* invocations of update_module started, not finished
    failed,                 \* providers that raised during the current cycle
    skipped,                \* modules the current cycle skipped as busy
    data,                   \* DataUpdate.data: the snapshot store
    registered_listeners,   \* Listeners.registered_listeners
    fan,                    \* the refresh_data_by_module call in progress
    push,                   \* the push delivered by the last worker step
    conn,                   \* state of each websocket connection
    last,                   \* the last step of the protocol engine
    now,                    \* datetime.now(), in units of 10 seconds
    thr,                    \* the update threads: position, flags, schedule
    shutdown,               \* position of Server.exit_application
    upd                     \* DataUpdate: the thread objects it has made

vars ==
    <<stopping, pc, i, sensors_data, cls_sensors, tasks, inflight, failed,
      skipped, data, registered_listeners, fan, push, conn, last, now, thr,
      shutdown, upd>>

timerVars == <<now, thr, shutdown, upd>>

workerVars ==
    <<stopping, pc, i, sensors_data, cls_sensors, tasks, inflight, failed,
      skipped, fan, push, timerVars>>

(***************************************************************************)
(* Protocol vocabulary: server/websocket.py                                *)
(***************************************************************************)
\* settings.data.api.token
Token == "T"

Tokens == {Token, "X"}

ReqIds == {"r1", "r2"}

\* the values str(uuid4()) yields: no client id is one of them
Uuids == {"uuid-1", "uuid-2"}

\* the branches of _handle_event that are not commented out
HandledEvents ==
    {"application_update", "exit_application", "keyboard_keypress",
     "keyboard_text", "register_data_listener", "unregister_data_listener",
     "get_data"}

\* the events the model sends; media_control has no live branch
Events ==
    {"register_data_listener", "unregister_data_listener", "get_data",
     "exit_application", "media_control"}

ModuleLists ==
    {<<>>, <<"sensors", "system">>, <<"bogus">>, <<"bogus", "system">>}

\* the snapshot entries a modelled get_data can ask for
Requested == {"sensors", "system"}

\* has_modules: whether data["data"]["modules"] exists in the raw message
Requests ==
    {r \in [id : ReqIds, token : Tokens, event : Events,
            has_modules : BOOLEAN, modules : ModuleLists] :
        /\ r.has_modules \/ r.modules = <<>>
        /\ r.has_modules => r.event \in {"register_data_listener", "get_data"}}

NoReq ==
    [id |-> "", token |-> "", event |-> "", has_modules |-> FALSE,
     modules |-> <<>>]

\* payloads receive_json / Request(**data) cannot turn into a request
Payloads == {"not_json", "not_object", "bad_fields"}

Response(id, type, subtype, module, blob) ==
    [id |-> id, type |-> type, subtype |-> subtype, module |-> module,
     blob |-> blob]

Error(id, subtype) == Response(id, "error", subtype, "", None)

NoLast ==
    [kind |-> "none", c |-> 0, req |-> NoReq, payload |-> "", out |-> <<>>,
     had |-> FALSE, again |-> "no"]

(***************************************************************************)
(* Listener registry: modules/listeners.py                                 *)
(***************************************************************************)
RegisteredIds ==
    {registered_listeners[k].id : k \in 1..Len(registered_listeners)}

HasId(reg, id) == \E k \in 1..Len(reg) : reg[k].id = id

add_listener_dup(reg, id, modules) ==
    Append(reg, [id |-> id, modules |-> modules])

\* add_listener: TRUE (already registered) leaves the list alone
add_listener(reg, id, modules) ==
    IF HasId(reg, id) THEN reg
    ELSE Append(reg, [id |-> id, modules |-> modules])

remove_listener_any(reg, id) == IF reg = <<>> THEN reg ELSE Tail(reg)

\* remove_listener: drop the first entry carrying the id
remove_listener(reg, id) ==
    IF HasId(reg, id)
    THEN LET k == CHOOSE n \in 1..Len(reg) :
                      reg[n].id = id /\ \A j \in 1..(n - 1) : reg[j].id # id
         IN SubSeq(reg, 1, k - 1) \o SubSeq(reg, k + 1, Len(reg))
    ELSE reg

ImplementedAll(module) == TRUE

\* refresh_data_by_module, _data_changed: "if module not in MODULES: return"
Implemented(module) == module \in MODULES

MatchesAll(module, listener) == TRUE

\* the filter of refresh_data_by_module
Matches(module, listener) == module \in listener.modules

\* the listeners a dispatch for module owes a push when it starts
Interested(module) ==
    {registered_listeners[k].id :
        k \in {n \in 1..Len(registered_listeners) :
                  module \in registered_listeners[n].modules}}

\* refresh_data_by_module: entry
FanStart(owner, module) ==
    [owner |-> owner, module |-> module, idx |-> 1, pend |-> NoListener,
     expect |-> IF module \in MODULES THEN Interested(module) ELSE {},
     got |-> {},
     stay |-> IF module \in MODULES THEN Interested(module) ELSE {}]

(***************************************************************************)
(* Update thread and refresh cycle                                         *)
(***************************************************************************)
IsBusyNever(t, m) == FALSE

\* "name in self.tasks and not self.tasks[name].done()"
IsBusy(t, m) == t[m] \in {"running", "callback", "stranded"}

\* run_until_complete returns: the cycle's event loop is never run again,
\* so a task that is still pending on it stays pending
Strand(t) == [m \in DOMAIN t |-> IF t[m] = "running" THEN "stranded" ELSE t[m]]

\* the update threads Server.start starts
Threads == {"data", "media"}

\* UPDATE_INTERVAL of the data and of the media thread, in units of 10 s
UPDATE_INTERVAL == [data |-> 3, media |-> 2]

NoTime == -1

\* DataUpdate.__init__: update_data_thread / update_media_thread is None.
\* ref is the thread object the attribute holds (0 for None), made the
\* number of thread objects created, outer those whose run() has not
\* returned (is_alive), loops those whose _run is running, asked those
\* whose stopping is set
NoThreads ==
    [ref |-> 0, made |-> 0, outer |-> {}, loops |-> {}, asked |-> {}]

\* UpdateThread.__init__: next_run is datetime.now(); line is the line of
\* _run at which the thread returned
NewThread ==
    [pc |-> "loop", stopping |-> FALSE, next_run |-> 0, until |-> 0,
     start |-> NoTime, gap |-> NoTime, dur |-> 0, raised |-> FALSE,
     line |-> 0]

\* _run after the tick: "if self.stopping: return", else back to the top
AfterTick == IF stopping THEN "stopped" ELSE "wait"

Init ==
    /\ stopping = FALSE
    /\ pc = "wait"
    /\ i = 0
    /\ sensors_data = None
    /\ cls_sensors = [m \in SensorClasses |-> None]
    /\ tasks = [m \in ClassNames |-> "none"]
    /\ inflight = [m \in ClassNames |-> 0]
    /\ failed = {}
    /\ skipped = {}
    /\ data = [n \in Names |-> None]
    /\ registered_listeners = <<>>
    /\ fan = FanIdle
    /\ push = NoPush
    /\ conn = [c \in Ids |-> "closed"]
    /\ last = NoLast
    /\ now = 0
    /\ thr = [t \in Threads |-> NewThread]
    /\ shutdown = "running"
    /\ upd = [t \in Threads |-> NoThreads]

\* Server.exit_application -> UpdateThread.join: request the stop; the
\* main event loop serves nothing afterwards
Join ==
    /\ ~stopping
    /\ stopping' = TRUE
    /\ UNCHANGED <<pc, i, sensors_data, cls_sensors, tasks, inflight, failed,
                   skipped, data, registered_listeners, fan, push, conn, last,
                   timerVars>>

WakeSkipsSensors ==
    /\ pc = "wait"
    /\ IF stopping
       THEN /\ pc' = "stopped"
            /\ UNCHANGED <<i, failed, skipped, sensors_data>>
       ELSE /\ pc' = "classes"
            /\ i' = 1
            /\ failed' = {}
            /\ skipped' = {}
            /\ sensors_data' = None
    /\ push' = NoPush
    /\ UNCHANGED <<stopping, cls_sensors, tasks, inflight, data,
                   registered_listeners, fan, conn, last, timerVars>>

\* _run: the sleep ends; stop check, update_next_run, then update() on a
\* new event loop
Wake ==
    /\ pc = "wait"
    /\ IF stopping
       THEN /\ pc' = "stopped"
            /\ UNCHANGED <<i, failed, skipped, sensors_data>>
       ELSE /\ pc' = "sensors"
            /\ i' = 0
            /\ failed' = {}
            /\ skipped' = {}
            /\ sensors_data' = None
    /\ push' = NoPush
    /\ UNCHANGED <<stopping, cls_sensors, tasks, inflight, data,
                   registered_listeners, fan, conn, last, timerVars>>

\* update_data: the sensors provider returns and the callback stores the blob
SensorsUpdated ==
    /\ pc = "sensors"
    /\ \E v \in SensorBlobs :
        /\ sensors_data' = v
        /\ data' = [data EXCEPT !["sensors"] = v]
    /\ fan' = FanStart("main", "sensors")
    /\ pc' = "sensors_cb"
    /\ push' = NoPush
    /\ UNCHANGED <<stopping, i, cls_sensors, tasks, inflight, failed, skipped,
                   registered_listeners, conn, last, timerVars>>

\* update_data: the sensors provider raises; nothing catches it inside
\* update_data, the tick ends in _run's except clause
SensorsFailed ==
    /\ pc = "sensors"
    /\ failed' = failed \cup {"sensors"}
    /\ tasks' = Strand(tasks)
    /\ pc' = AfterTick
    /\ push' = NoPush
    /\ UNCHANGED <<stopping, i, sensors_data, cls_sensors, inflight, skipped,
                   data, registered_listeners, fan, conn, last, timerVars>>

ClassStepWaits ==
    /\ pc = "classes"
    /\ fan.owner = "none"
    /\ push' = NoPush
    /\ IF i > Len(Classes)
       THEN /\ \A m \in ClassNames : tasks[m] # "running"
            /\ tasks' = Strand(tasks)
            /\ pc' = AfterTick
            /\ UNCHANGED <<i, cls_sensors, inflight, skipped>>
       ELSE LET m == Classes[i] IN
            /\ cls_sensors' =
                   IF m \in SensorClasses
                   THEN [cls_sensors EXCEPT ![m] = sensors_data]
                   ELSE cls_sensors
            /\ IF IsBusy(tasks, m)
               THEN /\ skipped' = skipped \cup {m}
                    /\ i' = i + 1
                    /\ UNCHANGED <<pc, tasks, inflight>>
               ELSE /\ inflight[m] < MaxInflight
                    /\ tasks' = [tasks EXCEPT ![m] = "running"]
                    /\ inflight' = [inflight EXCEPT ![m] = @ + 1]
                    /\ pc' = "stagger"
                    /\ UNCHANGED <<i, skipped>>
    /\ UNCHANGED <<stopping, sensors_data, failed, data, registered_listeners,
                   fan, conn, last, timerVars>>

\* update_data: one iteration of "for module_class in self._classes",
\* or the end of the loop
ClassStep ==
    /\ pc = "classes"
    /\ fan.owner = "none"
    /\ push' = NoPush
    /\ IF i > Len(Classes)
       THEN /\ tasks' = Strand(tasks)
            /\ pc' = AfterTick
            /\ UNCHANGED <<i, cls_sensors, inflight, skipped>>
       ELSE LET m == Classes[i] IN
            /\ cls_sensors' =
                   IF m \in SensorClasses
                   THEN [cls_sensors EXCEPT ![m] = sensors_data]
                   ELSE cls_sensors
            /\ IF IsBusy(tasks, m)
               THEN /\ skipped' = skipped \cup {m}
                    /\ i' = i + 1
                    /\ UNCHANGED <<pc, tasks, inflight>>
               ELSE /\ inflight[m] < MaxInflight
                    /\ tasks' = [tasks EXCEPT ![m] = "running"]
                    /\ inflight' = [inflight EXCEPT ![m] = @ + 1]
                    /\ pc' = "stagger"
                    /\ UNCHANGED <<i, skipped>>
    /\ UNCHANGED <<stopping, sensors_data, failed, data, registered_listeners,
                   fan, conn, last, timerVars>>

\* update_data: asyncio.sleep(1) is over
Stagger ==
    /\ pc = "stagger"
    /\ fan.owner = "none"
    /\ pc' = "classes"
    /\ i' = i + 1
    /\ push' = NoPush
    /\ UNCHANGED <<stopping, sensors_data, cls_sensors, tasks, inflight, failed,
                   skipped, data, registered_listeners, fan, conn, last,
                   timerVars>>

ProviderReturnNoWrite(m) ==
    /\ pc = "stagger"
    /\ fan.owner = "none"
    /\ tasks[m] = "running"
    /\ data' = data
    /\ tasks' = [tasks EXCEPT ![m] = "callback"]
    /\ fan' = FanStart(m, m)
    /\ push' = NoPush
    /\ UNCHANGED <<stopping, pc, i, sensors_data, cls_sensors, inflight, failed,
                   skipped, registered_listeners, conn, last, timerVars>>

\* update_module: the provider returns and the callback stores the blob
ProviderReturn(m) ==
    /\ pc = "stagger"
    /\ fan.owner = "none"
    /\ tasks[m] = "running"
    /\ \E v \in Blobs : data' = [data EXCEPT ![m] = v]
    /\ tasks' = [tasks EXCEPT ![m] = "callback"]
    /\ fan' = FanStart(m, m)
    /\ push' = NoPush
    /\ UNCHANGED <<stopping, pc, i, sensors_data, cls_sensors, inflight, failed,
                   skipped, registered_listeners, conn, last, timerVars>>

ProviderRaiseClears(m) ==
    /\ pc = "stagger"
    /\ fan.owner = "none"
    /\ tasks[m] = "running"
    /\ tasks' = [tasks EXCEPT ![m] = "done"]
    /\ inflight' = [inflight EXCEPT ![m] = @ - 1]
    /\ failed' = failed \cup {m}
    /\ data' = [data EXCEPT ![m] = None]
    /\ push' = NoPush
    /\ UNCHANGED <<stopping, pc, i, sensors_data, cls_sensors, skipped,
                   registered_listeners, fan, conn, last, timerVars>>

\* update_module: the provider raises, the except clause logs it
ProviderRaise(m) ==
    /\ pc = "stagger"
    /\ fan.owner = "none"
    /\ tasks[m] = "running"
    /\ tasks' = [tasks EXCEPT ![m] = "done"]
    /\ inflight' = [inflight EXCEPT ![m] = @ - 1]
    /\ failed' = failed \cup {m}
    /\ push' = NoPush
    /\ UNCHANGED <<stopping, pc, i, sensors_data, cls_sensors, skipped, data,
                   registered_listeners, fan, conn, last, timerVars>>

\* refresh_data_by_module returned: update_data goes on to the module
\* loop, update_module returns and its task is done
FanReturned ==
    /\ fan' = FanIdle
    /\ IF fan.owner = "main"
       THEN /\ pc' = "classes"
            /\ i' = 1
            /\ UNCHANGED <<tasks, inflight>>
       ELSE /\ tasks' = [tasks EXCEPT ![fan.owner] = "done"]
            /\ inflight' = [inflight EXCEPT ![fan.owner] = @ - 1]
            /\ UNCHANGED <<pc, i>>

\* refresh_data_by_module raised: in update_data nothing catches it and
\* the tick ends, in update_module the except clause logs it
FanRaised ==
    /\ fan' = FanIdle
    /\ IF fan.owner = "main"
       THEN /\ pc' = AfterTick
            /\ tasks' = Strand(tasks)
            /\ UNCHANGED <<i, inflight>>
       ELSE /\ tasks' = [tasks EXCEPT ![fan.owner] = "done"]
            /\ inflight' = [inflight EXCEPT ![fan.owner] = @ - 1]
            /\ UNCHANGED <<pc, i>>

\* refresh_data_by_module: the module check, then one step of
\* "for listener in self.registered_listeners" up to the filter
FanNext ==
    /\ fan.owner # "none"
    /\ fan.pend = NoListener
    /\ push' = NoPush
    /\ IF ~Implemented(fan.module) \/ fan.idx > Len(registered_listeners)
       THEN FanReturned
       ELSE LET listener == registered_listeners[fan.idx] IN
            /\ fan' = [fan EXCEPT
                          !.idx = @ + 1,
                          !.pend = IF Matches(fan.module, listener)
                                   THEN listener ELSE NoListener]
            /\ UNCHANGED <<pc, i, tasks, inflight>>
    /\ UNCHANGED <<stopping, sensors_data, cls_sensors, failed, skipped, data,
                   registered_listeners, conn, last, timerVars>>

\* listener.data_changed_callback -> _data_changed -> _send_response:
\* the push carries the module's entry of the snapshot store
FanDeliver ==
    /\ fan.owner # "none"
    /\ fan.pend # NoListener
    /\ push' = IF Implemented(fan.module)
               THEN [id |-> fan.pend.id, module |-> fan.module,
                     modules |-> fan.pend.modules, blob |-> data[fan.module]]
               ELSE NoPush
    /\ fan' = [fan EXCEPT !.pend = NoListener, !.got = @ \cup {fan.pend.id}]
    /\ UNCHANGED <<stopping, pc, i, sensors_data, cls_sensors, tasks, inflight,
                   failed, skipped, data, registered_listeners, conn, last,
                   timerVars>>

\* the sink raises (websocket.send_json on a dead transport)
FanDeliverFails ==
    /\ fan.owner # "none"
    /\ fan.pend # NoListener
    /\ push' = NoPush
    /\ FanRaised
    /\ UNCHANGED <<stopping, sensors_data, cls_sensors, failed, skipped, data,
                   registered_listeners, conn, last, timerVars>>

\* Listeners.add_listener, from the main event loop
AddListener(id, modules) ==
    /\ ~stopping
    /\ Len(registered_listeners) < MaxListeners
    /\ registered_listeners' = add_listener(registered_listeners, id, modules)
    /\ registered_listeners' # registered_listeners
    /\ UNCHANGED <<workerVars, data, conn, last>>

\* Listeners.remove_listener, from the main event loop
RemoveListener(id) ==
    /\ ~stopping
    /\ registered_listeners' = remove_listener(registered_listeners, id)
    /\ registered_listeners' # registered_listeners
    /\ fan' = [fan EXCEPT !.stay = @ \ {id}]
    /\ UNCHANGED <<stopping, pc, i, sensors_data, cls_sensors, tasks, inflight,
                   failed, skipped, push, timerVars, data, conn, last>>

(***************************************************************************)
(* Protocol engine: server/websocket.py                                    *)
(***************************************************************************)
TokenOkAlways(token) == TRUE

\* "request.token != self._settings.data.api.token" is false
TokenOk(token) == token = Token

\* parameters of Listeners.add_listener after self
AddListenerParams == 4

\* positional arguments of the add_listener call in _handle_event
RegisterCallArgs == 3

\* getattr(self._data_update.data, module) of a name the snapshot holds
SnapshotGet(d, module) == IF module \in DOMAIN d THEN d[module] ELSE None

\* get_data: "for module in model.modules", up to the first name that is
\* no attribute of the snapshot (getattr raises AttributeError)
RECURSIVE GetDataResponses(_, _, _)
GetDataResponses(d, id, modules) ==
    IF modules = <<>>
    THEN [out |-> <<>>, raised |-> FALSE]
    ELSE LET m == Head(modules) IN
         IF m \notin MODULES
         THEN [out |-> <<>>, raised |-> TRUE]
         ELSE LET rest == GetDataResponses(d, id, Tail(modules))
                  blob == SnapshotGet(d, m)
                  r == IF blob = None
                       THEN Response(id, "error", "", m, None)
                       ELSE Response(id, "data_update", "", m, blob)
              IN [out |-> <<r>> \o rest.out, raised |-> rest.raised]

Replied(reg, out) ==
    [out |-> out, reg |-> reg, raised |-> FALSE, exit |-> FALSE]

Raised(reg, out) ==
    [out |-> out, reg |-> reg, raised |-> TRUE, exit |-> FALSE]

UnknownEventNoId(reg, req) ==
    Replied(reg, <<Error("UNKNOWN", "unknown_event")>>)

\* the else branch of _handle_event
UnknownEvent(reg, req) == Replied(reg, <<Error(req.id, "unknown_event")>>)

\* _handle_event, for the events the model sends
HandleEvent(reg, d, listener_id, req) ==
    CASE req.event = "exit_application" ->
           [out |-> <<>>, reg |-> reg, raised |-> FALSE, exit |-> TRUE]
      [] req.event = "register_data_listener" ->
           IF ~req.has_modules
           THEN Raised(reg, <<>>)
           ELSE IF Len(req.modules) = 0
           THEN Replied(reg, <<Error(req.id, "missing_modules")>>)
           ELSE IF RegisterCallArgs # AddListenerParams
           THEN Raised(reg, <<>>)
           ELSE IF HasId(reg, listener_id)
           THEN Replied(reg, <<Error(req.id, "listener_already_registered")>>)
           ELSE Replied(add_listener(reg, listener_id,
                                     {req.modules[k] : k \in 1..Len(req.modules)}),
                        <<Response(req.id, "data_listener_registered", "", "",
                                   None)>>)
      [] req.event = "unregister_data_listener" ->
           IF ~HasId(reg, listener_id)
           THEN Replied(reg, <<Error(req.id, "listener_not_registered")>>)
           ELSE Replied(remove_listener(reg, listener_id),
                        <<Response(req.id, "data_listener_unregistered", "", "",
                                   None)>>)
      [] req.event = "get_data" ->
           IF ~req.has_modules
           THEN Raised(reg, <<>>)
           ELSE IF Len(req.modules) = 0
           THEN Replied(reg, <<Error(req.id, "missing_modules")>>)
           ELSE LET rs == GetDataResponses(d, req.id, req.modules)
                    out == <<Response(req.id, "data_get", "", "", None)>>
                               \o rs.out
                IN IF rs.raised THEN Raised(reg, out) ELSE Replied(reg, out)
      [] OTHER -> UnknownEvent(reg, req)

HandleRequestNoCatch(reg, d, listener_id, req) ==
    IF ~TokenOk(req.token)
    THEN [out |-> <<Error(req.id, "bad_token")>>, reg |-> reg,
          open |-> FALSE, exit |-> FALSE]
    ELSE LET h == HandleEvent(reg, d, listener_id, req) IN
         [out |-> h.out, reg |-> h.reg, open |-> ~h.exit /\ ~h.raised,
          exit |-> h.exit]

\* _handler, from the token check on: the responses, the registry, whether
\* the loop goes on and whether the process exits
HandleRequest(reg, d, listener_id, req) ==
    IF ~TokenOk(req.token)
    THEN [out |-> <<Error(req.id, "bad_token")>>, reg |-> reg,
          open |-> FALSE, exit |-> FALSE]
    ELSE LET h == HandleEvent(reg, d, listener_id, req) IN
         [out |-> IF h.raised
                  THEN h.out \o <<Error(req.id, "unknown_event")>>
                  ELSE h.out,
          reg |-> h.reg, open |-> ~h.exit, exit |-> h.exit]

\* the exception Request(**data) raises for a payload that is no request:
\* a JSON value that is no object cannot be unpacked (TypeError); for an
\* object with wrong fields it is the model class that raises, lib says what
ParseError(payload, lib) ==
    CASE payload = "not_json" -> "JSONDecodeError"
      [] payload = "not_object" -> "TypeError"
      [] OTHER -> lib

\* the except clauses of _handler around receive_json and Request(**data)
ParseFailure(exception) ==
    CASE exception = "JSONDecodeError" -> <<Error("UNKNOWN", "bad_json")>>
      [] exception = "ValueError" -> <<Error("UNKNOWN", "bad_request")>>
      [] OTHER -> <<>>

HandlerFinallyKeeps(reg, listener_id) == reg

\* handler: the finally clause
HandlerFinally(reg, listener_id) == remove_listener(reg, listener_id)

DataChangedFixedId(d, module, uuid) ==
    IF module \notin MODULES THEN <<>>
    ELSE <<Response("r1", "data_update", "", module, SnapshotGet(d, module))>>

\* _data_changed: the push the sink of a listener sends for a module
DataChanged(d, module, uuid) ==
    IF module \notin MODULES THEN <<>>
    ELSE <<Response(uuid, "data_update", "", module, SnapshotGet(d, module))>>

\* the return value of add_listener: already registered
add_listener_result_never(reg, id) == FALSE

add_listener_result(reg, id) == HasId(reg, id)

\* the return value of remove_listener: found
remove_listener_result(reg, id) == HasId(reg, id)

\* whether the step before was a request on connection c that left the
\* connection open, and whether it was answered unknown_event
Again(c) ==
    IF last.kind = "request" /\ last.c = c /\ conn[c] = "open"
    THEN IF last.out # <<>>
            /\ last.out[Len(last.out)].subtype = "unknown_event"
         THEN "unknown_event" ELSE "yes"
    ELSE "no"

\* websocket_endpoint: a connection is accepted and handler() starts
Connect(c) ==
    /\ ~stopping
    /\ conn[c] = "closed"
    /\ conn' = [conn EXCEPT ![c] = "open"]
    /\ last' = [NoLast EXCEPT !.kind = "connect", !.c = c]
    /\ UNCHANGED <<workerVars, data, registered_listeners>>

\* Listeners.add_listener for the listener id and sink of connection c
ConnAddListener(c, modules) ==
    /\ ~stopping
    /\ conn[c] = "open"
    /\ \/ Len(registered_listeners) < MaxListeners
       \/ HasId(registered_listeners, c)
    /\ registered_listeners' = add_listener(registered_listeners, c, modules)
    /\ last' = [NoLast EXCEPT
                  !.kind = "add_listener", !.c = c,
                  !.had = add_listener_result(registered_listeners, c),
                  !.again = IF last.kind = "add_listener" /\ last.c = c
                            THEN IF last.had THEN "after_true"
                                 ELSE "after_false"
                            ELSE "no"]
    /\ UNCHANGED <<workerVars, data, conn>>

\* Listeners.remove_all_listeners
ConnRemoveAll ==
    /\ ~stopping
    /\ registered_listeners' = <<>>
    /\ last' = [NoLast EXCEPT !.kind = "remove_all",
                              !.had = registered_listeners # <<>>]
    /\ UNCHANGED <<workerVars, data, conn>>

\* a dispatch of the registry calls the sink of connection c's listener
\* for a module of its interest set that the snapshot store holds
ConnDataChanged(c, module, uuid) ==
    /\ ~stopping
    /\ \E k \in 1..Len(registered_listeners) :
          /\ registered_listeners[k].id = c
          /\ Matches(module, registered_listeners[k])
    /\ SnapshotGet(data, module) # None
    /\ last' = [NoLast EXCEPT !.kind = "push", !.c = c,
                              !.out = DataChanged(data, module, uuid),
                              !.had = TRUE,
                              !.again = Again(c)]
    /\ UNCHANGED <<workerVars, data, conn, registered_listeners>>

RecvDisconnectClearsAll(c) ==
    /\ ~stopping
    /\ conn[c] = "open"
    /\ conn' = [conn EXCEPT ![c] = "closed"]
    /\ registered_listeners' = <<>>
    /\ last' = [NoLast EXCEPT !.kind = "disconnect", !.c = c,
                              !.had = c \in RegisteredIds]
    /\ UNCHANGED <<workerVars, data>>

\* _handler: receive_json raises WebSocketDisconnect or ConnectionError
RecvDisconnect(c) ==
    /\ ~stopping
    /\ conn[c] = "open"
    /\ conn' = [conn EXCEPT ![c] = "closed"]
    /\ registered_listeners' = HandlerFinally(registered_listeners, c)
    /\ last' = [NoLast EXCEPT !.kind = "disconnect", !.c = c,
                              !.had = c \in RegisteredIds]
    /\ UNCHANGED <<workerVars, data>>

\* _handler: the message is no request
RecvUnparsable(c, payload, lib) ==
    /\ ~stopping
    /\ conn[c] = "open"
    /\ conn' = [conn EXCEPT ![c] = "closed"]
    /\ registered_listeners' = HandlerFinally(registered_listeners, c)
    /\ last' = [NoLast EXCEPT !.kind = "unparsable", !.c = c,
                              !.payload = payload,
                              !.out = ParseFailure(ParseError(payload, lib)),
                              !.had = c \in RegisteredIds,
                              !.again = Again(c)]
    /\ UNCHANGED <<workerVars, data>>

RecvRequestRefreshes(c, req) ==
    /\ ~stopping
    /\ conn[c] = "open"
    /\ LET h == HandleRequest(registered_listeners, data, c, req) IN
        /\ conn' = [conn EXCEPT ![c] = IF h.open THEN "open" ELSE "closed"]
        /\ registered_listeners' =
               IF h.open THEN h.reg ELSE HandlerFinally(h.reg, c)
        /\ stopping' = h.exit
        /\ last' = [NoLast EXCEPT !.kind = "request", !.c = c, !.req = req,
                                  !.out = h.out,
                                  !.had = c \in RegisteredIds,
                                  !.again = Again(c)]
    /\ tasks' = IF req.event = "get_data" /\ TokenOk(req.token)
                THEN [m \in ClassNames |-> "running"]
                ELSE tasks
    /\ UNCHANGED <<pc, i, sensors_data, cls_sensors, inflight, failed,
                   skipped, fan, push, data, timerVars>>

\* _handler: one parsed request, through the token check and _handle_event
RecvRequest(c, req) ==
    /\ ~stopping
    /\ conn[c] = "open"
    /\ LET h == HandleRequest(registered_listeners, data, c, req) IN
        /\ conn' = [conn EXCEPT ![c] = IF h.open THEN "open" ELSE "closed"]
        /\ registered_listeners' =
               IF h.open THEN h.reg ELSE HandlerFinally(h.reg, c)
        /\ stopping' = h.exit
        /\ last' = [NoLast EXCEPT !.kind = "request", !.c = c, !.req = req,
                                  !.out = h.out,
                                  !.had = c \in RegisteredIds,
                                  !.again = Again(c)]
    /\ UNCHANGED <<pc, i, sensors_data, cls_sensors, tasks, inflight, failed,
                   skipped, fan, push, data, timerVars>>

Worker ==
    \/ Wake
    \/ SensorsUpdated
    \/ SensorsFailed
    \/ ClassStep
    \/ Stagger
    \/ \E m \in ClassNames : ProviderReturn(m)
    \/ \E m \in ClassNames : ProviderRaise(m)
    \/ FanNext
    \/ FanDeliver
    \/ FanDeliverFails

Registry ==
    \/ \E id \in Ids, modules \in Interests : AddListener(id, modules)
    \/ \E id \in Ids : RemoveListener(id)

Next == Worker \/ Registry \/ Join

Spec == Init /\ [][Next]_vars

(***************************************************************************)
(* The protocol engine on its own: the connections of the main event loop  *)
(* over every content of the snapshot store.                               *)
(***************************************************************************)
InitConn ==
    /\ stopping = FALSE
    /\ pc = "wait"
    /\ i = 0
    /\ sensors_data = None
    /\ cls_sensors = [m \in SensorClasses |-> None]
    /\ tasks = [m \in ClassNames |-> "none"]
    /\ inflight = [m \in ClassNames |-> 0]
    /\ failed = {}
    /\ skipped = {}
    /\ data \in {d \in [Names -> {None} \cup Blobs] :
                    \A n \in Names \ Requested : d[n] = None}
    /\ registered_listeners = <<>>
    /\ fan = FanIdle
    /\ push = NoPush
    /\ conn = [c \in Ids |-> "closed"]
    /\ last = NoLast
    /\ now = 0
    /\ thr = [t \in Threads |-> NewThread]
    /\ shutdown = "running"
    /\ upd = [t \in Threads |-> NoThreads]

NextConn ==
    \/ \E c \in Ids : Connect(c)
    \/ \E c \in Ids, modules \in Interests : ConnAddListener(c, modules)
    \/ ConnRemoveAll
    \/ \E c \in Ids, module \in Requested, uuid \in Uuids :
           ConnDataChanged(c, module, uuid)
    \/ \E c \in Ids : RecvDisconnect(c)
    \/ \E c \in Ids, payload \in Payloads, lib \in {"ValueError", "TypeError"} :
           RecvUnparsable(c, payload, lib)
    \/ \E c \in Ids, req \in Requests : RecvRequest(c, req)

SpecConn == InitConn /\ [][NextConn]_vars

TypeOK ==
    /\ stopping \in BOOLEAN
    /\ pc \in {"wait", "sensors", "sensors_cb", "classes", "stagger", "stopped"}
    /\ i \in 0..(Len(Classes) + 1)
    /\ tasks \in [ClassNames -> {"none", "running", "callback", "done", "stranded"}]
    /\ data \in [Names -> {None} \cup Blobs \cup SensorBlobs]

(***************************************************************************)
(* The update loop with the scheduling the code provides: the thread runs  *)
(* on while it is not stopped, the event loop of a cycle runs every step   *)
(* that is ready, and a provider that gets the chance to return, returns.  *)
(***************************************************************************)
FairSpec ==
    /\ Spec
    /\ WF_vars(Wake)
    /\ WF_vars(SensorsUpdated)
    /\ WF_vars(ClassStep)
    /\ WF_vars(Stagger)
    /\ WF_vars(FanNext)
    /\ WF_vars(FanDeliver)
    /\ \A m \in ClassNames : SF_vars(ProviderReturn(m))


(***************************************************************************)
(* refresh_data_by_module on its own: the call the callback makes, over    *)
(* every registry and over module names inside and outside MODULES.        *)
(***************************************************************************)
\* the module names a modelled dispatch is called with
DispatchModules == {"sensors", "system", "bogus"}

\* add_listener stores the modules it is given as they are
DispatchInterests == Interests \cup {{"bogus"}, {"bogus", "sensors"}}

Registries ==
    {r \in UNION {[1..n -> [id : Ids, modules : DispatchInterests]] :
                     n \in 0..MaxListeners} :
        \A j, k \in 1..Len(r) : r[j].id = r[k].id => j = k}

InitDispatch ==
    /\ stopping = FALSE
    /\ pc = "sensors_cb"
    /\ i = 0
    /\ sensors_data = 1
    /\ cls_sensors = [m \in SensorClasses |-> None]
    /\ tasks = [m \in ClassNames |-> "none"]
    /\ inflight = [m \in ClassNames |-> 0]
    /\ failed = {}
    /\ skipped = {}
    /\ data = [n \in Names |-> 1]
    /\ registered_listeners \in Registries
    /\ \E module \in DispatchModules :
          /\ fan = FanStart("main", module)
          /\ last = [NoLast EXCEPT !.kind = "dispatch", !.payload = module]
    /\ push = NoPush
    /\ conn = [c \in Ids |-> "open"]
    /\ now = 0
    /\ thr = [t \in Threads |-> NewThread]
    /\ shutdown = "running"
    /\ upd = [t \in Threads |-> NoThreads]

NextDispatch ==
    \/ FanNext
    \/ FanDeliver
    \/ FanDeliverFails
    \/ \E id \in Ids : RemoveListener(id)

SpecDispatch == InitDispatch /\ [][NextDispatch]_vars

(***************************************************************************)
(* Starting and stopping the update threads: handlers/data.py.             *)
(***************************************************************************)
\* Thread.is_alive() of the object the attribute holds
IsAlive(u) == u.ref # 0 /\ u.ref \in u.outer

\* request_update_data / request_update_media_data
RequestUpdate(t) ==
    /\ shutdown = "running"
    /\ IF IsAlive(upd[t])
       THEN UNCHANGED upd
       ELSE /\ upd[t].made < MaxThreads
            /\ upd' = [upd EXCEPT ![t] = [@ EXCEPT !.made = @ + 1,
                                                   !.ref = upd[t].made + 1,
                                                   !.outer = @ \cup
                                                       {upd[t].made + 1}]]
    /\ UNCHANGED <<stopping, pc, i, sensors_data, cls_sensors, tasks, inflight,
                   failed, skipped, data, registered_listeners, fan, push,
                   conn, last, now, thr, shutdown>>

\* UpdateThread.run: start the thread of _run and return
Run(t, id) ==
    /\ id \in upd[t].outer
    /\ upd' = [upd EXCEPT ![t] = [@ EXCEPT !.outer = @ \ {id},
                                           !.loops = @ \cup {id}]]
    /\ UNCHANGED <<stopping, pc, i, sensors_data, cls_sensors, tasks, inflight,
                   failed, skipped, data, registered_listeners, fan, push,
                   conn, last, now, thr, shutdown>>

\* _run: a loop whose stopping is set returns, at the latest from its next
\* stop check
LoopReturns(t, id) ==
    /\ id \in upd[t].loops
    /\ id \in upd[t].asked
    /\ upd' = [upd EXCEPT ![t] = [@ EXCEPT !.loops = @ \ {id}]]
    /\ UNCHANGED <<stopping, pc, i, sensors_data, cls_sensors, tasks, inflight,
                   failed, skipped, data, registered_listeners, fan, push,
                   conn, last, now, thr, shutdown>>

\* Server.exit_application: join() of the thread object the attribute
\* holds, if any: the data thread first, then the media thread
ExitJoinHeld(t) ==
    /\ shutdown = (IF t = "data" THEN "running" ELSE "joined_data")
    /\ shutdown' = (IF t = "data" THEN "joined_data" ELSE "exited")
    /\ upd' = [upd EXCEPT ![t] =
                  IF upd[t].ref = 0 THEN @
                  ELSE [@ EXCEPT !.asked = @ \cup {upd[t].ref}]]
    /\ UNCHANGED <<stopping, pc, i, sensors_data, cls_sensors, tasks, inflight,
                   failed, skipped, data, registered_listeners, fan, push,
                   conn, last, now, thr>>

NextRequest ==
    \/ \E t \in Threads : RequestUpdate(t)
    \/ \E t \in Threads, id \in 1..MaxThreads : Run(t, id)
    \/ \E t \in Threads, id \in 1..MaxThreads : LoopReturns(t, id)
    \/ \E t \in Threads : ExitJoinHeld(t)

SpecRequest == Init /\ [][NextRequest]_vars

(***************************************************************************)
(* The periodic tasks on a clock: handlers/threads/update.py. Statements   *)
(* take no time; a sleep and a tick end at the instant kept in until. The  *)
(* bounded waits of join (4 s) are shorter than a unit of time.            *)
(***************************************************************************)
update_next_run_fixed(th, t) ==
    IF th.stopping THEN th
    ELSE [th EXCEPT !.next_run = @ + UPDATE_INTERVAL[t]]

\* update_next_run: now + interval, unless the thread is stopping
update_next_run(th, t) ==
    IF th.stopping THEN th
    ELSE [th EXCEPT !.next_run = now + UPDATE_INTERVAL[t]]

UpdateGuardNever(th) == FALSE

\* DataUpdateThread.update, MediaUpdateThread.update: "if self.stopping:
\* return" before the work of the tick
UpdateGuard(th) == th.stopping

StartTickDetached(th, d) ==
    [th EXCEPT
        !.pc = "loop",
        !.gap = IF th.start = NoTime THEN NoTime ELSE now - th.start,
        !.start = now,
        !.until = now + d,
        !.dur = d]

\* update() goes on to its work, which lasts d
StartTick(th, d) ==
    [th EXCEPT
        !.pc = "tick",
        !.gap = IF th.start = NoTime THEN NoTime ELSE now - th.start,
        !.start = now,
        !.until = now + d,
        !.dur = d]

StoppedAtKeepsRunning(th, n) == [th EXCEPT !.pc = "loop"]

\* _run returns at line n
StoppedAt(th, n) == [th EXCEPT !.pc = "stopped", !.line = n]

AfterTickThreadDies(th, raised) ==
    IF th.stopping \/ raised
    THEN StoppedAt([th EXCEPT !.raised = raised], 49)
    ELSE [th EXCEPT !.pc = "loop", !.raised = raised]

\* _run: update() returned or its exception was logged; stop check
AfterTickThread(th, raised) ==
    IF th.stopping
    THEN StoppedAt([th EXCEPT !.raised = raised], 49)
    ELSE [th EXCEPT !.pc = "loop", !.raised = raised]

join_forgets(th) == th

\* UpdateThread.join: request the stop; the waits are bounded
join(th) == [th EXCEPT !.stopping = TRUE]

\* _run: the while test, then the wait for the next run
LoopTop(t) ==
    /\ thr[t].pc = "loop"
    /\ IF thr[t].stopping
       THEN thr' = [thr EXCEPT ![t] = StoppedAt(@, 27)]
       ELSE IF thr[t].next_run > now
       THEN thr' = [thr EXCEPT ![t] = [@ EXCEPT !.pc = "sleeping",
                                                !.until = thr[t].next_run]]
       ELSE thr' = [thr EXCEPT ![t] = [@ EXCEPT !.pc = "check"]]
    /\ UNCHANGED <<stopping, pc, i, sensors_data, cls_sensors, tasks, inflight,
                   failed, skipped, data, registered_listeners, fan, push,
                   conn, last, now, shutdown, upd>>

\* _run: time.sleep is over
SleepEnds(t) ==
    /\ thr[t].pc = "sleeping"
    /\ thr[t].until <= now
    /\ thr' = [thr EXCEPT ![t] = [@ EXCEPT !.pc = "check"]]
    /\ UNCHANGED <<stopping, pc, i, sensors_data, cls_sensors, tasks, inflight,
                   failed, skipped, data, registered_listeners, fan, push,
                   conn, last, now, shutdown, upd>>

\* _run: "if self.stopping: return" after the wait
StopCheck(t) ==
    /\ thr[t].pc = "check"
    /\ IF thr[t].stopping
       THEN thr' = [thr EXCEPT ![t] = StoppedAt(@, 37)]
       ELSE thr' = [thr EXCEPT ![t] = [@ EXCEPT !.pc = "schedule"]]
    /\ UNCHANGED <<stopping, pc, i, sensors_data, cls_sensors, tasks, inflight,
                   failed, skipped, data, registered_listeners, fan, push,
                   conn, last, now, shutdown, upd>>

\* _run: self.update_next_run() before the update
Schedule(t) ==
    /\ thr[t].pc = "schedule"
    /\ thr' = [thr EXCEPT ![t] = [update_next_run(@, t) EXCEPT !.pc = "call"]]
    /\ UNCHANGED <<stopping, pc, i, sensors_data, cls_sensors, tasks, inflight,
                   failed, skipped, data, registered_listeners, fan, push,
                   conn, last, now, shutdown, upd>>

\* _run: run_until_complete(self.update()); update() returns at once when
\* the thread is stopping
CallUpdate(t) ==
    /\ thr[t].pc = "call"
    /\ IF UpdateGuard(thr[t])
       THEN thr' = [thr EXCEPT ![t] = AfterTickThread(@, FALSE)]
       ELSE \E d \in 0..MaxDuration :
               /\ now + d <= MaxTime
               /\ thr' = [thr EXCEPT ![t] = StartTick(@, d)]
    /\ UNCHANGED <<stopping, pc, i, sensors_data, cls_sensors, tasks, inflight,
                   failed, skipped, data, registered_listeners, fan, push,
                   conn, last, now, shutdown, upd>>

\* _run: update() returned
TickReturns(t) ==
    /\ thr[t].pc = "tick"
    /\ thr[t].until <= now
    /\ thr' = [thr EXCEPT ![t] = AfterTickThread(@, FALSE)]
    /\ UNCHANGED <<stopping, pc, i, sensors_data, cls_sensors, tasks, inflight,
                   failed, skipped, data, registered_listeners, fan, push,
                   conn, last, now, shutdown, upd>>

\* _run: update() raised, the except clause logs the exception
TickRaises(t) ==
    /\ thr[t].pc = "tick"
    /\ thr[t].until <= now
    /\ thr' = [thr EXCEPT ![t] = AfterTickThread(@, TRUE)]
    /\ UNCHANGED <<stopping, pc, i, sensors_data, cls_sensors, tasks, inflight,
                   failed, skipped, data, registered_listeners, fan, push,
                   conn, last, now, shutdown, upd>>

\* the thread has a statement to run at this instant
Due(th) ==
    \/ th.pc \in {"loop", "check", "schedule", "call"}
    \/ th.pc \in {"sleeping", "tick"} /\ th.until <= now

\* time passes once every statement that is due has run; past MaxTime only
\* for the threads that were asked to stop to come to their end
Advance ==
    /\ \A t \in Threads : ~Due(thr[t])
    /\ \/ now < MaxTime
       \/ /\ \A t \in Threads : thr[t].stopping
          /\ \E t \in Threads : thr[t].pc # "stopped"
    /\ now' = now + 1
    /\ UNCHANGED <<stopping, pc, i, sensors_data, cls_sensors, tasks, inflight,
                   failed, skipped, data, registered_listeners, fan, push,
                   conn, last, thr, shutdown, upd>>

\* Server.exit_application: join of the data update thread
ExitJoinData ==
    /\ shutdown = "running"
    /\ thr' = [thr EXCEPT !["data"] = join(@)]
    /\ shutdown' = "joined_data"
    /\ UNCHANGED <<stopping, pc, i, sensors_data, cls_sensors, tasks, inflight,
                   failed, skipped, data, registered_listeners, fan, push,
                   conn, last, now, upd>>

\* Server.exit_application: join of the media update thread, up to sys.exit
ExitJoinMedia ==
    /\ shutdown = "joined_data"
    /\ thr' = [thr EXCEPT !["media"] = join(@)]
    /\ shutdown' = "exited"
    /\ UNCHANGED <<stopping, pc, i, sensors_data, cls_sensors, tasks, inflight,
                   failed, skipped, data, registered_listeners, fan, push,
                   conn, last, now, upd>>

ThreadStep(t) ==
    \/ LoopTop(t)
    \/ SleepEnds(t)
    \/ StopCheck(t)
    \/ Schedule(t)
    \/ CallUpdate(t)
    \/ TickReturns(t)
    \/ TickRaises(t)

NextTimer ==
    \/ \E t \in Threads : LoopTop(t)
    \/ \E t \in Threads : SleepEnds(t)
    \/ \E t \in Threads : StopCheck(t)
    \/ \E t \in Threads : Schedule(t)
    \/ \E t \in Threads : CallUpdate(t)
    \/ \E t \in Threads : TickReturns(t)
    \/ \E t \in Threads : TickRaises(t)
    \/ Advance
    \/ ExitJoinData
    \/ ExitJoinMedia

SpecTimer == Init /\ [][NextTimer]_vars

\* the threads are scheduled, time passes, a tick ends, and exit_application
\* once called runs to its end
FairSpecTimer ==
    /\ SpecTimer
    /\ \A t \in Threads : WF_vars(ThreadStep(t))
    /\ WF_vars(Advance)
    /\ WF_vars(ExitJoinMedia)

(***************************************************************************)
(* Properties                                                              *)
(***************************************************************************)

\* C1: for every module at most one invocation of its provider refresh is
\* in flight: a refresh of a module is started only when none is in flight,
\* so a cycle that reaches a busy module starts nothing for it.
C1_NoSecondRefresh ==
    [][\A m \in ClassNames :
          inflight'[m] > inflight[m] => inflight[m] = 0 /\ inflight'[m] = 1]_vars

\* a cycle has reached a module whose refresh was still in flight and
\* skipped it
C1_Witness ==
    \E m \in skipped : inflight[m] = 1 /\ IsBusy(tasks, m)

\* C2: if the provider of X raises during a cycle, the cycle still reaches
\* every other module (starting it unless it is busy), and X is not left
\* busy, so the next cycle starts X again.
C2_FailureIsolated ==
    (pc \in {"wait", "stopped"} /\ failed # {}) =>
        /\ i > Len(Classes)
        /\ \A m \in ClassNames \ failed : m \in skipped \/ tasks[m] # "none"
        /\ \A x \in failed \cap ClassNames : ~IsBusy(tasks, x)

\* C3: a refresh that is still in flight when its cycle returns gets
\* finished later (its busy state clears), unless the thread is stopped.
C3_SlowModuleFinishes ==
    \A m \in ClassNames :
        (pc = "wait" /\ IsBusy(tasks, m)) ~> (~IsBusy(tasks, m) \/ stopping)

\* C4: a push for module X goes only to a listener whose own interest set
\* contains X.
C4_PushOnlyToInterested ==
    push # NoPush => push.module \in push.modules

\* a push reaches one listener while another listener, registered with an
\* interest set without that module, gets nothing
C4_Witness ==
    /\ push # NoPush
    /\ \E k \in 1..Len(registered_listeners) :
          /\ registered_listeners[k].id # push.id
          /\ push.module \notin registered_listeners[k].modules
          /\ fan.idx > k
          /\ registered_listeners[k].id \notin fan.got

\* C5: when the dispatch of a completed refresh of X ends, every listener
\* that was registered with X in its interest set when it began (and is
\* still registered, and whose own sink did not fail) has got the push.
C5_EveryInterestedListenerPushed ==
    [][(fan.owner # "none" /\ fan'.owner = "none") =>
          ((fan.expect \cap RegisteredIds') \ {fan.pend.id}) \subseteq fan.got]_vars

\* C7: a push is delivered only to a listener that is registered at the
\* time of the delivery: none after its removal.
C7_NoDeliveryAfterRemove ==
    [][(push = NoPush /\ push' # NoPush) => push'.id \in RegisteredIds]_vars

\* C6: the listener entry of a connection that has ended is not in the
\* registry.
C6_ClosedConnectionUnregistered ==
    \A c \in Ids : conn[c] = "closed" => c \notin RegisteredIds

\* a connection that had a registered listener has just ended
C6_Witness ==
    /\ last.kind \in {"disconnect", "unparsable", "request"}
    /\ last.had
    /\ conn[last.c] = "closed"
    /\ last.c \notin RegisteredIds

\* C8: a request with a wrong token gets the single response error /
\* bad_token, the connection is closed and its listener entry removed, and
\* nothing else changes: no handler ran.
C8_BadTokenClosesWithoutHandling ==
    [][(last' # last /\ last'.kind = "request" /\ last'.req.token # Token) =>
          /\ last'.out = <<Error(last'.req.id, "bad_token")>>
          /\ conn' = [conn EXCEPT ![last'.c] = "closed"]
          /\ registered_listeners' =
                 remove_listener(registered_listeners, last'.c)
          /\ stopping' = stopping
          /\ data' = data]_vars

\* a wrong token on a connection that has a listener and has already had
\* a request answered
C8_Witness ==
    /\ last.kind = "request"
    /\ last.req.token # Token
    /\ last.had
    /\ last.again # "no"
    /\ conn[last.c] = "closed"

\* C9: a message that is no request gets exactly one error response with id
\* UNKNOWN and subtype bad_json or bad_request, and the connection ends.
C9_UnparsableAnswered ==
    last.kind = "unparsable" =>
        /\ Len(last.out) = 1
        /\ last.out[1].id = "UNKNOWN"
        /\ last.out[1].type = "error"
        /\ last.out[1].subtype \in {"bad_json", "bad_request"}
        /\ conn[last.c] = "closed"

\* C10: an authenticated request whose event has no handler gets the
\* response error / unknown_event with its id, and the connection stays
\* open.
C10_UnknownEventKeepsOpen ==
    (/\ last.kind = "request"
     /\ last.req.token = Token
     /\ last.req.event \notin HandledEvents) =>
        /\ last.out = <<Error(last.req.id, "unknown_event")>>
        /\ conn[last.c] = "open"

\* a request processed on the connection right after an unknown event
C10_Witness ==
    /\ last.kind = "request"
    /\ last.req.token = Token
    /\ last.req.event \notin HandledEvents
    /\ last.again = "unknown_event"
    /\ conn[last.c] = "open"

\* C11: every response to a parsed request carries the id of that request,
\* and a fan-out push carries a generated id that is no request id.
C11_ResponsesCarryIds ==
    /\ last.kind = "request" =>
           \A k \in 1..Len(last.out) : last.out[k].id = last.req.id
    /\ last.kind = "push" =>
           \A k \in 1..Len(last.out) :
               last.out[k].id \in Uuids /\ last.out[k].id \notin ReqIds

\* a push is sent on a connection right after a request on it was answered
C11_Witness ==
    /\ last.kind = "push"
    /\ Len(last.out) = 1
    /\ last.again # "no"

\* C12: every request gets a terminal response carrying its id, whatever
\* its event.
C12_EveryRequestAnswered ==
    last.kind = "request" =>
        /\ last.out # <<>>
        /\ last.out[Len(last.out)].id = last.req.id

\* C13: register_data_listener with a valid token and a non-empty list of
\* known modules, on a connection without a listener, is answered
\* data_listener_registered with the request's id, and the registry then
\* holds a listener of the connection with exactly that interest set.
C13_RegisterSucceeds ==
    (/\ last.kind = "request"
     /\ last.req.token = Token
     /\ last.req.event = "register_data_listener"
     /\ last.req.has_modules
     /\ last.req.modules # <<>>
     /\ \A k \in 1..Len(last.req.modules) : last.req.modules[k] \in MODULES
     /\ ~last.had) =>
        /\ last.out = <<Response(last.req.id, "data_listener_registered", "",
                                 "", None)>>
        /\ \E n \in 1..Len(registered_listeners) :
              /\ registered_listeners[n].id = last.c
              /\ registered_listeners[n].modules =
                     {last.req.modules[k] : k \in 1..Len(last.req.modules)}

\* C14: in a get_data request each listed module of the module-name set
\* gets its own response, data_update with the snapshot entry when there
\* is one and an error for the module when there is none, whatever the
\* other listed modules are.
C14_EachModuleAnswered ==
    (/\ last.kind = "request"
     /\ last.req.token = Token
     /\ last.req.event = "get_data"
     /\ last.req.has_modules) =>
        \A k \in 1..Len(last.req.modules) :
            last.req.modules[k] \in MODULES =>
                \E j \in 1..Len(last.out) :
                    /\ last.out[j].id = last.req.id
                    /\ last.out[j].module = last.req.modules[k]
                    /\ last.out[j].blob = SnapshotGet(data, last.req.modules[k])
                    /\ last.out[j].type =
                           IF SnapshotGet(data, last.req.modules[k]) = None
                           THEN "error" ELSE "data_update"

\* C15: a get_data request naming a module outside the module-name set is
\* answered with an error for that request that cites the modules (subtype
\* missing_modules, or an error for the named module), and the connection
\* stays open.
C15_UnknownModuleRejected ==
    (/\ last.kind = "request"
     /\ last.req.token = Token
     /\ last.req.event = "get_data"
     /\ last.req.has_modules
     /\ \E k \in 1..Len(last.req.modules) : last.req.modules[k] \notin MODULES) =>
        /\ conn[last.c] = "open"
        /\ \E j \in 1..Len(last.out) :
              /\ last.out[j].id = last.req.id
              /\ last.out[j].type = "error"
              /\ \/ last.out[j].subtype = "missing_modules"
                 \/ \E k \in 1..Len(last.req.modules) :
                       /\ last.req.modules[k] \notin MODULES
                       /\ last.out[j].module = last.req.modules[k]

\* C16: a register_data_listener request listing a name outside the
\* module-name set is rejected with a validation error and registers
\* nothing: no interest set ever holds a name outside the set.
C16_UnknownModuleNotRegistered ==
    [][/\ (/\ last' # last
           /\ last'.kind = "request"
           /\ last'.req.token = Token
           /\ last'.req.event = "register_data_listener"
           /\ last'.req.has_modules
           /\ \E k \in 1..Len(last'.req.modules) :
                 last'.req.modules[k] \notin MODULES) =>
              /\ Len(last'.out) = 1
              /\ last'.out[1].id = last'.req.id
              /\ last'.out[1].type = "error"
              /\ last'.out[1].subtype \in {"missing_modules", "bad_request"}
              /\ registered_listeners' = registered_listeners
       /\ \A n \in 1..Len(registered_listeners') :
              registered_listeners'[n].modules \subseteq MODULES]_vars

\* C17: register_data_listener or get_data with a missing or empty module
\* list gets the single response error / missing_modules, changes neither
\* the registry nor the snapshot store, and the connection stays open.
C17_MissingModulesRejected ==
    [][(/\ last' # last
        /\ last'.kind = "request"
        /\ last'.req.token = Token
        /\ last'.req.event \in {"register_data_listener", "get_data"}
        /\ ~last'.req.has_modules \/ last'.req.modules = <<>>) =>
           /\ last'.out = <<Error(last'.req.id, "missing_modules")>>
           /\ registered_listeners' = registered_listeners
           /\ data' = data
           /\ conn'[last'.c] = "open"]_vars

\* C18: register_data_listener on a connection whose listener is already
\* registered gets the single response error / listener_already_registered;
\* the connection stays open and the registry is unchanged.
C18_SecondRegisterRejected ==
    [][(/\ last' # last
        /\ last'.kind = "request"
        /\ last'.req.token = Token
        /\ last'.req.event = "register_data_listener"
        /\ last'.req.has_modules
        /\ last'.req.modules # <<>>
        /\ last'.had) =>
           /\ last'.out = <<Error(last'.req.id, "listener_already_registered")>>
           /\ registered_listeners' = registered_listeners
           /\ conn'[last'.c] = "open"]_vars

\* C19: remove_listener of an id that is not registered returns False and
\* leaves the registry as it is; unregister_data_listener on a connection
\* without a listener gets the single response error /
\* listener_not_registered and the connection stays open.
C19_RemoveUnregistered ==
    [][/\ \A id \in Ids :
              ~HasId(registered_listeners, id) =>
                  /\ remove_listener(registered_listeners, id) =
                         registered_listeners
                  /\ ~remove_listener_result(registered_listeners, id)
       /\ (/\ last' # last
           /\ last'.kind = "request"
           /\ last'.req.token = Token
           /\ last'.req.event = "unregister_data_listener"
           /\ ~last'.had) =>
              /\ last'.out = <<Error(last'.req.id, "listener_not_registered")>>
              /\ registered_listeners' = registered_listeners
              /\ conn'[last'.c] = "open"]_vars

\* unregister_data_listener on a connection without a listener, while the
\* registry holds the listener of another connection
C19_Witness ==
    /\ last.kind = "request"
    /\ last.req.token = Token
    /\ last.req.event = "unregister_data_listener"
    /\ ~last.had
    /\ registered_listeners # <<>>
    /\ conn[last.c] = "open"

\* C20: the registry holds at most one entry per listener id after any
\* add, remove and remove_all; add_listener with a registered id returns
\* True and leaves the registry, the entry's interest set included, as it
\* is.
C20_OneEntryPerId ==
    [][/\ \A j, k \in 1..Len(registered_listeners') :
              registered_listeners'[j].id = registered_listeners'[k].id
                  => j = k
       /\ \A id \in RegisteredIds, modules \in Interests :
              /\ add_listener(registered_listeners, id, modules) =
                     registered_listeners
              /\ add_listener_result(registered_listeners, id)
       /\ (last' # last /\ last'.kind = "add_listener" /\ last'.had) =>
              registered_listeners' = registered_listeners]_vars

\* add_listener was called with the id of a listener that is registered,
\* next to the listener of another connection
C20_Witness ==
    /\ last.kind = "add_listener"
    /\ last.had
    /\ Len(registered_listeners) = 2
    /\ last.c \in RegisteredIds

\* C21 as stated: when add_listener is called twice in a row for the same id,
\* both calls return TRUE (already registered) and the registry holds exactly
\* one entry for the id.
C21_BothAlreadyRegistered ==
    (last.kind = "add_listener" /\ last.again # "no") =>
        /\ last.again = "after_true"
        /\ last.had
        /\ Cardinality({k \in 1..Len(registered_listeners) :
                           registered_listeners[k].id = last.c}) = 1

\* C21, amended: when add_listener is called twice in a row for the same id,
\* the second call returns TRUE (already registered), whatever the first
\* returned, and after every call the registry holds exactly one entry for
\* the id.
C21_SecondAlreadyRegistered ==
    last.kind = "add_listener" =>
        /\ last.again # "no" => last.had
        /\ Cardinality({k \in 1..Len(registered_listeners) :
                           registered_listeners[k].id = last.c}) = 1

\* the second of two calls, the first of which registered the id
C21_Witness ==
    /\ last.kind = "add_listener"
    /\ last.again = "after_false"
    /\ last.had

\* C22: every snapshot entry is absent at startup; an entry changes only in
\* the step in which a refresh of that module succeeded, and then to the blob
\* the provider returned; a step in which a refresh fails changes no entry;
\* no step makes a populated entry absent.
C22_SnapshotOnlyReplaced ==
    /\ \A n \in Names : data[n] = None
    /\ [][\A n \in Names :
              /\ data[n] # None => data'[n] # None
              /\ data'[n] # data[n] =>
                     \/ /\ n = "sensors"
                        /\ pc = "sensors"
                        /\ data'[n] = sensors_data'
                        /\ data'[n] \in SensorBlobs
                     \/ /\ n \in ClassNames
                        /\ tasks[n] = "running"
                        /\ tasks'[n] = "callback"
                        /\ data'[n] \in Blobs
              /\ n \in failed' \ failed => data' = data]_vars

\* the refresh of a module whose entry is populated has failed
C22_Witness ==
    \E m \in ClassNames :
        /\ data[m] # None
        /\ m \in failed
        /\ tasks[m] = "done"

\* C23: when a listener's sink fails during a dispatch, the dispatch does not
\* end there while listeners it has not yet reached match the module: no
\* matching listener is left behind the one whose sink failed.
C23_SinkFailureDoesNotAbort ==
    [][(fan.owner # "none" /\ fan.pend # NoListener /\ fan'.owner = "none") =>
          \A k \in fan.idx..Len(registered_listeners) :
              ~Matches(fan.module, registered_listeners[k])]_vars

\* C24: a thread that is asleep and has been asked to stop does nothing but
\* end its sleep, and from the stop check that follows the sleep it returns
\* (line 37) in the same instant: it starts no tick.
C24_StopDuringSleep ==
    [][\A t \in Threads :
          /\ (thr[t].pc = "sleeping" /\ thr[t].stopping) =>
                 /\ thr'[t].pc \in {"sleeping", "check"}
                 /\ thr'[t].pc = "check" => now >= thr[t].until
                 /\ thr'[t].start = thr[t].start
          /\ (thr[t].pc = "check" /\ thr[t].stopping) =>
                 /\ thr'[t].pc \in {"check", "stopped"}
                 /\ thr'[t].pc = "stopped" => thr'[t].line = 37
                 /\ thr'[t].start = thr[t].start
                 /\ now' = now]_vars

\* a thread that slept after a tick has returned from the stop check at
\* the instant its sleep ended
C24_Witness ==
    \E t \in Threads :
        /\ thr[t].pc = "stopped"
        /\ thr[t].line = 37
        /\ thr[t].start # NoTime
        /\ thr[t].dur # UPDATE_INTERVAL[t]
        /\ thr[t].until = thr[t].next_run
        /\ now = thr[t].until

\* C25: when a tick ends with an exception the thread goes back to the top
\* of its loop unless it was asked to stop, with its schedule untouched; a
\* thread only ever returns when asked to stop; and the tick that follows a
\* tick that raised starts at the scheduled instant, one interval after the
\* start of that tick, or when that tick ended if it ended later.
C25_TickFailureSwallowed ==
    /\ [](\A t \in Threads : thr[t].pc = "stopped" => thr[t].stopping)
    /\ [][\A t \in Threads :
              /\ (thr[t].pc = "tick" /\ thr'[t].pc # "tick" /\ thr'[t].raised
                      /\ ~thr[t].stopping) =>
                     /\ thr'[t].pc = "loop"
                     /\ thr'[t].next_run = thr[t].next_run
              /\ (thr[t].pc = "call" /\ thr'[t].pc = "tick" /\ thr[t].raised) =>
                     thr'[t].start =
                         IF thr[t].dur > UPDATE_INTERVAL[t]
                         THEN thr[t].start + thr[t].dur
                         ELSE thr[t].start + UPDATE_INTERVAL[t]]_vars

\* a tick has started one interval after the start of a tick that raised
C25_Witness ==
    \E t \in Threads :
        /\ thr[t].pc = "tick"
        /\ thr[t].raised
        /\ thr[t].gap = UPDATE_INTERVAL[t]
        /\ thr[t].start = now

\* C26: when a tick starts, next_run has already been set to the instant of
\* the start plus the interval and the start leaves it alone; the time since
\* the start of the previous tick is the interval, or the duration of the
\* previous tick when that was longer; and only update_next_run, called
\* before the tick, moves next_run.
C26_ScheduleFromTickStart ==
    [][\A t \in Threads :
          /\ (thr[t].pc = "call" /\ thr'[t].pc = "tick") =>
                 /\ thr[t].next_run = now + UPDATE_INTERVAL[t]
                 /\ thr'[t].next_run = thr[t].next_run
                 /\ thr'[t].start = now
                 /\ thr[t].start # NoTime =>
                        /\ thr'[t].gap = now - thr[t].start
                        /\ thr'[t].gap =
                               IF thr[t].dur > UPDATE_INTERVAL[t]
                               THEN thr[t].dur ELSE UPDATE_INTERVAL[t]
          /\ thr'[t].next_run # thr[t].next_run =>
                 /\ thr[t].pc = "schedule"
                 /\ thr'[t].pc = "call"
                 /\ thr'[t].next_run = now + UPDATE_INTERVAL[t]]_vars

\* a tick has started later than one interval after the previous one, which
\* lasted longer than the interval, and is scheduled from its own start
C26_Witness ==
    \E t \in Threads :
        /\ thr[t].pc = "tick"
        /\ thr[t].start = now
        /\ thr[t].gap > UPDATE_INTERVAL[t]
        /\ thr[t].next_run = now + UPDATE_INTERVAL[t]

\* C27: join acts whatever the thread is doing, in no time and without
\* touching the thread's position; once a thread has been asked to stop the
\* request stays, no tick of it starts, and it comes to have returned from
\* _run; a thread that has returned stays so.
C27_StopAnyState ==
    /\ [][\A t \in Threads :
              /\ (~thr[t].stopping /\ thr'[t].stopping) =>
                     /\ now' = now
                     /\ thr'[t] = [thr[t] EXCEPT !.stopping = TRUE]
              /\ thr[t].stopping =>
                     /\ thr'[t].stopping
                     /\ thr'[t].start = thr[t].start
                     /\ thr'[t].pc # "tick" \/ thr[t].pc = "tick"
              /\ thr[t].pc = "stopped" => thr'[t] = thr[t]]_vars
    /\ \A t \in Threads :
           thr[t].stopping ~> [](thr[t].pc = "stopped")

\* a thread was asked to stop in the middle of a tick
C27_Witness ==
    \E t \in Threads :
        /\ thr[t].pc = "tick"
        /\ thr[t].stopping
        /\ thr[t].start < now
        /\ now < thr[t].until

\* C28: when exit_application is through, every update thread has been asked
\* to stop; its joins take no time and leave each thread where it is, a
\* tick in progress included; and after it no thread starts a tick.
C28_ShutdownStopsThreads ==
    /\ [](shutdown = "exited" => \A t \in Threads : thr[t].stopping)
    /\ [][(shutdown' # shutdown =>
               /\ now' = now
               /\ \A t \in Threads :
                      /\ thr'[t].pc = thr[t].pc
                      /\ thr'[t].until = thr[t].until)
           /\
           (shutdown = "exited" =>
               /\ shutdown' = "exited"
               /\ \A t \in Threads :
                      /\ thr'[t].start = thr[t].start
                      /\ thr[t].pc # "tick" => thr'[t].pc # "tick")]_vars

\* exit_application is through while the tick of a thread is in progress
C28_Witness ==
    /\ shutdown = "exited"
    /\ \E t \in Threads :
           /\ thr[t].pc = "tick"
           /\ thr[t].start < now
           /\ now < thr[t].until

\* C29: the task of a module is started only from the module loop of a
\* cycle whose sensors blob has been computed and is what the snapshot store
\* holds under "sensors"; the blob of a cycle is set once, from unset, in
\* the step that stores it, and unset only when the next cycle begins.
C29_SensorsBeforeModules ==
    [][/\ \A m \in ClassNames :
              (tasks[m] # "running" /\ tasks'[m] = "running") =>
                  /\ pc = "classes"
                  /\ sensors_data \in SensorBlobs
                  /\ data["sensors"] = sensors_data
       /\ sensors_data' # sensors_data =>
              \/ /\ pc = "wait"
                 /\ pc' = "sensors"
                 /\ sensors_data' = None
              \/ /\ pc = "sensors"
                 /\ sensors_data = None
                 /\ sensors_data' \in SensorBlobs
                 /\ data'["sensors"] = sensors_data'
                 /\ \A m \in ClassNames : tasks[m] # "running"]_vars

\* the refresh of the last class has been started, after the sensors blob
\* of its cycle was stored, in a cycle that follows a failed one
C29_Witness ==
    /\ pc = "stagger"
    /\ i = Len(Classes)
    /\ tasks[Classes[i]] = "running"
    /\ sensors_data \in SensorBlobs
    /\ data["sensors"] = sensors_data
    /\ \E m \in ClassNames : tasks[m] = "stranded"

\* C30: the sensors attribute of a provider changes only in the step that
\* starts the provider's refresh; while the module is busy the attribute is
\* left as the refresh in flight got it.
C30_InjectedOnlyAtStart ==
    [][\A m \in SensorClasses :
          /\ cls_sensors'[m] # cls_sensors[m] =>
                 (tasks[m] # "running" /\ tasks'[m] = "running")
          /\ IsBusy(tasks, m) => cls_sensors'[m] = cls_sensors[m]]_vars

C32_ConcurrentRegistryChange ==
    [][/\ (fan.owner # "none" /\ fan.pend = NoListener
               /\ fan'.owner = "none") =>
              fan.stay \subseteq fan.got
       /\ (fan.pend # NoListener /\ fan'.owner # "none"
               /\ fan'.pend = NoListener /\ fan.pend.id \in fan.stay) =>
              fan.pend.id \notin fan.got]_vars

\* C33: a dispatch for a module name outside MODULES calls the callback of
\* no listener and sends no push, and its first step returns to the caller
\* without an exception.
C33_UnknownModuleDispatch ==
    /\ []((fan.owner # "none" /\ ~(fan.module \in MODULES)) =>
             /\ fan.pend = NoListener
             /\ fan.got = {}
             /\ ENABLED FanNext)
    /\ [][(fan.owner # "none" /\ ~(fan.module \in MODULES)) =>
              /\ push' = NoPush
              /\ fan'.owner = "none" => pc' = "classes"
              /\ fan'.owner # "none" => fan'.idx = fan.idx]_vars

\* the dispatch for "bogus" has returned to its caller with a listener
\* registered whose interest set holds "bogus"
C33_Witness ==
    /\ last.kind = "dispatch"
    /\ last.payload = "bogus"
    /\ fan.owner = "none"
    /\ pc = "classes"
    /\ push = NoPush
    /\ \E k \in 1..Len(registered_listeners) :
           "bogus" \in registered_listeners[k].modules

\* C34: when _handle_event raises on a request with the right token, the
\* last response sent is an error carrying the id of the request, the
\* connection stays open with the registry as it was, and the connection
\* can take its next message.
C34_HandlerExceptionCaught ==
    /\ [][(/\ last'.kind = "request"
            /\ TokenOk(last'.req.token)
            /\ HandleEvent(registered_listeners, data, last'.c,
                           last'.req).raised) =>
              /\ last'.out # <<>>
              /\ last'.out[Len(last'.out)].type = "error"
              /\ last'.out[Len(last'.out)].id = last'.req.id
              /\ conn'[last'.c] = "open"
              /\ registered_listeners' = registered_listeners]_vars
    /\ []((last.kind = "request" /\ conn[last.c] = "open" /\ ~stopping) =>
             ENABLED (\E req \in Requests : RecvRequest(last.c, req)))

\* a get_data that raised on its second module has been answered, on a
\* connection whose request before had raised too
C34_Witness ==
    /\ last.kind = "request"
    /\ last.req.token = Token
    /\ last.req.event = "get_data"
    /\ last.req.modules = <<"bogus", "system">>
    /\ last.again = "unknown_event"
    /\ last.out[Len(last.out)] = Error(last.req.id, "unknown_event")
    /\ conn[last.c] = "open"

\* C35: a sink failure during a dispatch, that of the sensors blob included,
\* leaves the cycle in its module loop: the cycle does not end with it.
C35_SinkFailureKeepsCycle ==
    [][(fan.owner # "none" /\ fan.pend # NoListener /\ fan'.owner = "none") =>
          /\ pc' \in {"classes", "stagger"}
          /\ \A m \in ClassNames : tasks'[m] # "stranded" \/ tasks[m] = "stranded"]_vars

\* C36: when a push for module X has been delivered, the snapshot store
\* holds an entry for X and the pushed blob is that entry, so that a
\* get_data for X answers with it; and an entry never becomes absent or
\* changes but by a later refresh of its module.
C36_SnapshotBeforePush ==
    /\ [](push # NoPush =>
             /\ data[push.module] # None
             /\ push.blob = data[push.module]
             /\ GetDataResponses(data, "r1", <<push.module>>).out =
                    <<Response("r1", "data_update", "", push.module,
                               push.blob)>>)
    /\ [][\A n \in Names :
              /\ data[n] # None => data'[n] # None
              /\ data'[n] # data[n] =>
                     \/ n = "sensors" /\ pc = "sensors"
                     \/ n \in ClassNames /\ tasks[n] = "running"]_vars

\* a listener has got the push of a module of the module loop
C36_Witness ==
    /\ push # NoPush
    /\ push.module \in ClassNames
    /\ push.blob = data[push.module]
    /\ push.id \in RegisteredIds

\* C37: of each kind at most one update loop is running, and a loop that is
\* running belongs to the thread object the attribute holds, the one
\* exit_application joins; after exit_application every loop has been asked
\* to stop.
C37_OneLoopPerKind ==
    \A t \in Threads :
        /\ Cardinality(upd[t].loops) <= 1
        /\ upd[t].loops \subseteq {upd[t].ref}
        /\ shutdown = "exited" => upd[t].loops \subseteq upd[t].asked

\* C38: a thread starts a tick only from the call of update() in its loop,
\* never while a tick of it is in progress; a tick that started ends before
\* the next one starts, not earlier than its duration after its start; and
\* after a tick that lasted longer than the interval exactly one tick starts,
\* at the instant the long one ended, the next not before a whole interval
\* after that.
C38_TicksDoNotOverlap ==
    [][\A t \in Threads :
          /\ (thr'[t].start # thr[t].start
                 \/ (thr'[t].pc = "tick" /\ thr[t].pc # "tick")) =>
                 /\ thr[t].pc = "call"
                 /\ thr'[t].start = now
                 /\ thr[t].start # NoTime =>
                        /\ now >= thr[t].start + thr[t].dur
                        /\ now >= thr[t].start + UPDATE_INTERVAL[t]
                 /\ thr'[t].next_run >= now + UPDATE_INTERVAL[t]
          /\ thr[t].pc = "tick" =>
                 /\ thr'[t].pc \in {"tick", "loop", "stopped"}
                 /\ thr'[t].pc # "tick" => now >= thr[t].until
                 /\ thr'[t].start = thr[t].start]_vars

\* a tick that lasted longer than the interval was followed by one tick at
\* the instant it ended, and that tick has ended too
C38_Witness ==
    \E t \in Threads :
        /\ thr[t].pc = "sleeping"
        /\ thr[t].gap > UPDATE_INTERVAL[t]
        /\ thr[t].until = thr[t].start + UPDATE_INTERVAL[t]
        /\ thr[t].dur < UPDATE_INTERVAL[t]

\* C39: a get_data request with the right token only reads: the step that
\* serves it leaves the snapshot store, the listener registry and its
\* interest sets, the busy state of every module and the position of the
\* refresh cycle as they were, keeps the connection open, and answers in
\* that same step, whatever refresh is or is not under way.
C39_GetDataReadOnly ==
    [][(/\ last'.kind = "request"
        /\ last'.req.event = "get_data"
        /\ TokenOk(last'.req.token)
        /\ conn[last'.c] = "open"
        /\ last'.out = HandleRequest(registered_listeners, data, last'.c,
                                     last'.req).out) =>
           /\ data' = data
           /\ registered_listeners' = registered_listeners
           /\ tasks' = tasks
           /\ inflight' = inflight
           /\ pc' = pc
           /\ sensors_data' = sensors_data
           /\ conn' = conn
           /\ last'.out # <<>>]_vars

\* a get_data of a registered connection has been answered with a stored
\* blob while another connection is registered too
C39_Witness ==
    /\ last.kind = "request"
    /\ last.req.event = "get_data"
    /\ TokenOk(last.req.token)
    /\ Len(registered_listeners) = 2
    /\ HasId(registered_listeners, last.c)
    /\ \E j \in 1..Len(last.out) :
          /\ last.out[j].type = "data_update"
          /\ last.out[j].blob # None

\* C40: every connection has a listener id of its own, and what a
\* connection does to its listener stays with it: a request, an unparsable
\* message or a disconnect of connection c leaves the entries of every other
\* connection in the registry, in their order and with their interest sets;
\* after an unregistration that found c's entry, or the end of c's
\* connection, c's entry is gone.
C40_OnlyOwnEntryRemoved ==
    [][\A c \in Ids :
          (/\ last'.c = c
           /\ last'.kind \in {"disconnect", "unparsable", "request"}
           /\ conn[c] = "open") =>
              LET others(reg) == SelectSeq(reg, LAMBDA e : e.id # c) IN
              /\ others(registered_listeners') = others(registered_listeners)
              /\ Len(registered_listeners) - Len(registered_listeners')
                     \in {0, 1}
              /\ (\/ conn'[c] = "closed"
                  \/ /\ last'.kind = "request"
                     /\ TokenOk(last'.req.token)
                     /\ last'.req.event = "unregister_data_listener") =>
                     ~HasId(registered_listeners', c)]_vars

\* the connection of one of two registered listeners has ended, or has
\* unregistered; the other listener is still registered
C40_Witness ==
    /\ last.kind \in {"disconnect", "request"}
    /\ last.kind = "request" =>
           /\ last.req.event = "unregister_data_listener"
           /\ TokenOk(last.req.token)
    /\ last.had
    /\ Len(registered_listeners) = 1
    /\ ~HasId(registered_listeners, last.c)
    /\ \E d \in Ids \ {last.c} :
          /\ HasId(registered_listeners, d)
          /\ conn[d] = "open"

====
